---------------------------- MODULE Spec2Model ----------------------------
(***************************************************************************)
(* Model of src/lib/ai/tools/web/web-search.ts: the Tavily-backed search   *)
(* and contents tools (workflow and interactive variants), the backing API *)
(* client fetchTavily and the response translator.                         *)
(*                                                                         *)
(* Conventions.  An optional JavaScript value is None (undefined) or       *)
(* Some(v).  Strings that the code inspects character by character (URLs,  *)
(* page content) are sequences of one-character strings; error messages    *)
(* built by template literals are sequences of their pieces.               *)
(***************************************************************************)
EXTENDS Integers, Sequences, FiniteSets, TLC

None == <<>>
Some(v) == <<v>>
IsSome(o) == o # <<>>
Get(o) == o[1]

Min(a, b) == IF a <= b THEN a ELSE b

EmptyObject == [f \in {} |-> TRUE]

(***************************************************************************)
(* Bounds of the model.                                                    *)
(***************************************************************************)
MaxUrls == 2
MaxBackingResults == 2
MaxOptionalInputs == 2

(***************************************************************************)
(* Program constants.                                                      *)
(***************************************************************************)
DefaultNumResults == 5
DefaultMaxCharacters == 3000
ContentsMaxResults == 1

NoKey == "<unset>"
Keys == {"k1", "k2"}
KeyValues == Keys \cup {NoKey}

BASE_URL == "https://api.tavily.com"

(***************************************************************************)
(* Strings as character sequences, and the three string primitives the     *)
(* code uses on them.                                                      *)
(***************************************************************************)
includes(s, sub) ==
  \E i \in 1..(Len(s) - Len(sub) + 1) : SubSeq(s, i, i + Len(sub) - 1) = sub

substring0(s, n) == SubSeq(s, 1, Min(n, Len(s)))

\* first index of character c in s, 0 when there is none
IndexOf(s, c) ==
  IF \E i \in 1..Len(s) : s[i] = c
  THEN CHOOSE i \in 1..Len(s) : s[i] = c /\ \A j \in 1..(i - 1) : s[j] # c
  ELSE 0

(***************************************************************************)
(* new URL(url): the scheme "s://", a non-empty host, then the path.       *)
(* UrlParses is FALSE where the constructor throws a TypeError.            *)
(***************************************************************************)
Scheme == <<"s", ":", "/", "/">>

UrlParses(u) ==
  /\ Len(u) > Len(Scheme)
  /\ SubSeq(u, 1, Len(Scheme)) = Scheme
  /\ u[Len(Scheme) + 1] # "/"

UrlRest(u) == SubSeq(u, Len(Scheme) + 1, Len(u))

hostname(u) ==
  LET rest == UrlRest(u)
      p == IndexOf(rest, "/")
  IN IF p = 0 THEN rest ELSE SubSeq(rest, 1, p - 1)

pathname(u) ==
  LET rest == UrlRest(u)
      p == IndexOf(rest, "/")
  IN IF p = 0 THEN <<"/">> ELSE SubSeq(rest, p, Len(rest))

UA == <<"s", ":", "/", "/", "a", "/", "x">>
UAz == <<"s", ":", "/", "/", "a", "/", "z">>
UB == <<"s", ":", "/", "/", "b", "/", "y">>
UBad == <<"a", "/", "x">>

InputUrls == {UA, UB, UBad}

(***************************************************************************)
(* What the backing API can answer.                                        *)
(***************************************************************************)
RA ==
  [title |-> "A", url |-> UA, content |-> <<"c">>, score |-> 1,
   published_date |-> Some("2024-01-01"),
   raw_content |-> Some(<<"r", "a", "w">>), favicon |-> Some("fa")]
RAz ==
  [title |-> "Az", url |-> UAz, content |-> <<"c", "z">>, score |-> 2,
   published_date |-> None, raw_content |-> None, favicon |-> None]
RB ==
  [title |-> "B", url |-> UB, content |-> <<"c", "b">>, score |-> 3,
   published_date |-> Some(""), raw_content |-> Some(<<>>),
   favicon |-> Some("fb")]

BackingResults == {RA, RAz, RB}

SeqsUpTo(S, n) == UNION {[1..k -> S] : k \in 0..n}

ImageString == [isString |-> TRUE, url |-> Some("i1")]
ImageObject == [isString |-> FALSE, url |-> Some("i2")]
\* no images field, or a list with one entry of each kind
ImageLists == {None, Some(<<ImageString, ImageObject>>)}

\* the JSON bodies of a 2xx answer; results None is a body without the field
JsonBodies ==
  {[request_id |-> "rq", answer |-> None, results |-> Some(rs), images |-> im] :
      rs \in SeqsUpTo(BackingResults, MaxBackingResults), im \in ImageLists}
  \cup {[request_id |-> "rq", answer |-> Some("ans"), results |-> None,
         images |-> None]}

StatusText(status) ==
  CASE status = 200 -> "OK"
    [] status = 401 -> "Unauthorized"
    [] status = 404 -> "Not Found"
    [] status = 429 -> "Too Many Requests"
    [] status = 500 -> "Internal Server Error"

\* `${response.status}`
StatusString(status) ==
  CASE status = 200 -> "200"
    [] status = 401 -> "401"
    [] status = 404 -> "404"
    [] status = 429 -> "429"
    [] status = 500 -> "500"

\* response.ok
ok(response) == response.status >= 200 /\ response.status <= 299

\* text None: response.text() rejects; json None: response.json() rejects
HttpResponses ==
  {[net |-> TRUE, status |-> 200, text |-> None, json |-> j] :
      j \in {Some(b) : b \in JsonBodies} \cup {None}}
  \cup {[net |-> TRUE, status |-> s, text |-> None, json |-> None] :
      s \in {401, 429}}
  \cup {[net |-> TRUE, status |-> s, text |-> t, json |-> None] :
      s \in {404, 500}, t \in {None, Some(""), Some("oops")}}

\* net FALSE: fetch() itself rejects
NetworkFailure == [net |-> FALSE, status |-> 0, text |-> None, json |-> None]

Responses == HttpResponses \cup {NetworkFailure}

\* a contents request does not set include_images, so its answers carry none
ContentsResponses ==
  {r \in Responses : IsSome(r.json) => Get(r.json).images = None}

(***************************************************************************)
(* Errors are identified by their message.                                 *)
(***************************************************************************)
ConfigurationError == <<"TAVILY_API_KEY is not configured">>
AuthenticationError == <<"Invalid Tavily API key">>
RateLimitError == <<"Tavily API usage limit exceeded">>
FetchFailed == <<"fetch failed">>
JsonSyntaxError == <<"Unexpected end of JSON input">>
MapOfUndefined == <<"Cannot read properties of undefined (reading 'map')">>
InvalidUrl == <<"Invalid URL">>

Throw(message) == [ok |-> FALSE, error |-> message, value |-> None]
Ok(v) == [ok |-> TRUE, error |-> <<>>, value |-> Some(v)]


(***************************************************************************)
(* The backing API client, fetchTavily.  Its synchronous part runs up to   *)
(* the fetch; fetchTavilyResponse is what follows the await.               *)
(***************************************************************************)

\* variant: the key is looked up in the environment at every call
readApiKeyAtCall(env, captured) == env

\* the key fetchTavily tests and sends, given the environment's value at the
\* call and the module constant API_KEY
readApiKey(env, captured) == captured

fetchTavilyRequest(endpoint, body, key) ==
  [url |-> <<BASE_URL, endpoint>>,
   method |-> "POST",
   headers |-> [contentType |-> "application/json", apiKey |-> key],
   body |-> body]

\* variant: the request is sent before the key is tested
fetchTavilyStartFetchFirst(endpoint, body, key) ==
  [threw |-> key = NoKey,
   error |-> IF key = NoKey THEN ConfigurationError ELSE <<>>,
   requests |-> <<fetchTavilyRequest(endpoint, body, key)>>]

\* threw: the call failed before fetch; requests: the HTTP requests issued
fetchTavilyStart(endpoint, body, key) ==
  IF key = NoKey
  THEN [threw |-> TRUE, error |-> ConfigurationError, requests |-> <<>>]
  ELSE [threw |-> FALSE, error |-> <<>>,
        requests |-> <<fetchTavilyRequest(endpoint, body, key)>>]

\* response.text().catch(() => "")
errorTextOf(response) ==
  IF IsSome(response.text) THEN Get(response.text) ELSE ""

BackendErrorMessage(response, errorText) ==
  <<"Tavily API error: ", StatusString(response.status), " ",
    StatusText(response.status)>>
  \o (IF errorText # "" THEN <<" - ", errorText>> ELSE <<>>)

\* variant: reading the error body has no catch, so its failure is thrown
fetchTavilyResponseBodyReadThrows(response) ==
  IF ~response.net THEN Throw(FetchFailed)
  ELSE IF response.status = 401 THEN Throw(AuthenticationError)
  ELSE IF response.status = 429 THEN Throw(RateLimitError)
  ELSE IF ~ok(response)
       THEN IF IsSome(response.text)
            THEN Throw(BackendErrorMessage(response, Get(response.text)))
            ELSE Throw(FetchFailed)
  ELSE IF IsSome(response.json) THEN Ok(Get(response.json))
  ELSE Throw(JsonSyntaxError)

fetchTavilyResponse(response) ==
  IF ~response.net THEN Throw(FetchFailed)
  ELSE IF response.status = 401 THEN Throw(AuthenticationError)
  ELSE IF response.status = 429 THEN Throw(RateLimitError)
  ELSE IF ~ok(response)
       THEN Throw(BackendErrorMessage(response, errorTextOf(response)))
  ELSE IF IsSome(response.json) THEN Ok(Get(response.json))
  ELSE Throw(JsonSyntaxError)

(***************************************************************************)
(* JavaScript truthiness of the optional inputs.                           *)
(***************************************************************************)
TruthyString(o) == IsSome(o) /\ Get(o) # ""
TruthyNumber(o) == IsSome(o) /\ Get(o) # 0
\* o?.length
TruthyLength(o) == IsSome(o) /\ Len(Get(o)) > 0

(***************************************************************************)
(* Request translation of the two search tools (lines 243-279 and, with    *)
(* the same text, 354-390).                                                *)
(***************************************************************************)
SearchTypes == {"auto", "keyword", "neural"}

normalizedType(params) ==
  IF TruthyString(params.type) /\ Get(params.type) \in SearchTypes
  THEN Get(params.type)
  ELSE "auto"

\* variant: "keyword" is sent as an advanced search
searchDepthKeywordAdvanced(type) ==
  IF type = "neural" THEN "advanced"
  ELSE IF type = "keyword" THEN "advanced"
  ELSE "basic"

searchDepth(type) ==
  IF type = "neural" THEN "advanced"
  ELSE IF type = "keyword" THEN "basic"
  ELSE "basic"

maxResults(params) ==
  IF TruthyNumber(params.numResults) THEN Get(params.numResults)
  ELSE DefaultNumResults

\* variant: the topic is defaulted to "general"
topicFieldDefaulted(params) ==
  IF params.category = Some("news") THEN [topic |-> "news"]
  ELSE [topic |-> "general"]

topicField(params) ==
  IF params.category = Some("news") THEN [topic |-> "news"] ELSE EmptyObject

includeDomainsField(params) ==
  IF TruthyLength(params.includeDomains)
  THEN [include_domains |-> Get(params.includeDomains)]
  ELSE EmptyObject

excludeDomainsField(params) ==
  IF TruthyLength(params.excludeDomains)
  THEN [exclude_domains |-> Get(params.excludeDomains)]
  ELSE EmptyObject

startDateField(params) ==
  IF TruthyString(params.startPublishedDate)
  THEN [start_date |-> Get(params.startPublishedDate)]
  ELSE EmptyObject

endDateField(params) ==
  IF TruthyString(params.endPublishedDate)
  THEN [end_date |-> Get(params.endPublishedDate)]
  ELSE EmptyObject

searchRequestOf(params) ==
  [query |-> params.query,
   search_depth |-> searchDepth(normalizedType(params)),
   max_results |-> maxResults(params),
   include_answer |-> FALSE,
   include_images |-> TRUE,
   include_image_descriptions |-> FALSE,
   include_raw_content |-> FALSE,
   include_favicon |-> TRUE]
  @@ topicField(params)
  @@ includeDomainsField(params)
  @@ excludeDomainsField(params)
  @@ startDateField(params)
  @@ endDateField(params)

(***************************************************************************)
(* Response translation of the search tools.                               *)
(***************************************************************************)
imageUrlAt(images, index) ==
  IF IsSome(images) /\ Len(Get(images)) > 0
  THEN IF index \in 1..Len(Get(images))
       THEN LET imageItem == Get(images)[index]
            IN IF imageItem.isString THEN imageItem.url
               ELSE IF TruthyString(imageItem.url) THEN imageItem.url
               ELSE None
       ELSE None
  ELSE None

orEmpty(o) == IF TruthyString(o) THEN Get(o) ELSE ""

exaResultOf(result, imageUrl) ==
  [id |-> result.url,
   title |-> result.title,
   url |-> result.url,
   publishedDate |-> orEmpty(result.published_date),
   author |-> "",
   text |-> result.content,
   image |-> imageUrl,
   favicon |-> result.favicon,
   score |-> Some(result.score)]

\* variant: the first result is skipped
mapResultsSkipsFirst(results, images) ==
  [index \in 1..(Len(results) - 1) |->
     exaResultOf(results[index + 1], imageUrlAt(images, index + 1))]

mapResults(results, images) ==
  [index \in 1..Len(results) |->
     exaResultOf(results[index], imageUrlAt(images, index))]

\* throws where tavilyResponse.results is undefined
transformTavilyToExaFormat(tavilyResponse) ==
  IF IsSome(tavilyResponse.results)
  THEN Ok([requestId |-> tavilyResponse.request_id,
           autopromptString |-> orEmpty(tavilyResponse.answer),
           resolvedSearchType |-> "neural",
           results |-> mapResults(Get(tavilyResponse.results),
                                  tavilyResponse.images)])
  ELSE Throw(MapOfUndefined)

SearchGuide ==
  "Use the search results to answer the user's question. Summarize the content and ask if they have any additional questions about the topic."
SearchSolution ==
  "A web search error occurred. First, explain to the user what caused this specific error and how they can resolve it. Then provide helpful information based on your existing knowledge to answer their question."
ContentsSolution ==
  "A web content extraction error occurred. First, explain to the user what caused this specific error and how they can resolve it. Then provide helpful information based on your existing knowledge to answer their question."

\* safe(...).ifFail(...).unwrap(): a failure becomes the handler's payload
ErrorPayload(message, solution) ==
  [isError |-> TRUE, error |-> message, solution |-> solution]

\* what the body of a search tool evaluates to once the answer is there
searchCore(response) ==
  LET fetched == fetchTavilyResponse(response)
  IN IF fetched.ok THEN transformTavilyToExaFormat(Get(fetched.value))
     ELSE fetched

\* the interactive tool's success value: { ...result, guide }
withGuide(result) == result @@ [guide |-> SearchGuide]

\* outcome of a tool call: kind "return" with a value, or "raise"
Return(v) == [kind |-> "return", value |-> Some(v), error |-> <<>>]
Raise(message) == [kind |-> "raise", value |-> None, error |-> message]
NoOutcome == [kind |-> "none", value |-> None, error |-> <<>>]

\* exaSearchToolForWorkflow: failures propagate
workflowSearchOutcome(r) ==
  IF r.ok THEN Return(Get(r.value)) ELSE Raise(r.error)

\* variant: the failure handler throws the error again
interactiveSearchRethrows(r) ==
  IF r.ok THEN Return(withGuide(Get(r.value))) ELSE Raise(r.error)

\* exaSearchTool: failures become the error payload
interactiveSearchOutcome(r) ==
  IF r.ok THEN Return(withGuide(Get(r.value)))
  ELSE Return(ErrorPayload(r.error, SearchSolution))

(***************************************************************************)
(* The contents tools: one backing search per URL (lines 295-338 and, with *)
(* the same text, 421-464).                                                *)
(***************************************************************************)
contentsRequestOf(url) ==
  [query |-> url,
   search_depth |-> "advanced",
   max_results |-> ContentsMaxResults,
   include_domains |-> <<hostname(url)>>,
   include_raw_content |-> TRUE,
   include_favicon |-> TRUE]

\* results.find(r => r.url.includes(path)) || results[0]
matchingResultOf(results, path) ==
  LET hits == {i \in 1..Len(results) : includes(results[i].url, path)}
  IN IF hits # {}
     THEN results[CHOOSE i \in hits : \A j \in hits : i <= j]
     ELSE results[1]

maxCharactersOf(params) ==
  IF TruthyNumber(params.maxCharacters) THEN Get(params.maxCharacters)
  ELSE DefaultMaxCharacters

\* raw_content?.substring(0, n) || content
textOf(matchingResult, n) ==
  IF IsSome(matchingResult.raw_content)
     /\ substring0(Get(matchingResult.raw_content), n) # <<>>
  THEN substring0(Get(matchingResult.raw_content), n)
  ELSE matchingResult.content

\* variant: the id is taken from the matched result
contentsResultIdFromMatch(url, matchingResult, params) ==
  [id |-> matchingResult.url,
   title |-> matchingResult.title,
   url |-> matchingResult.url,
   publishedDate |-> orEmpty(matchingResult.published_date),
   author |-> "",
   text |-> textOf(matchingResult, maxCharactersOf(params)),
   favicon |-> matchingResult.favicon,
   score |-> Some(matchingResult.score)]

contentsResultOf(url, matchingResult, params) ==
  [id |-> url,
   title |-> matchingResult.title,
   url |-> matchingResult.url,
   publishedDate |-> orEmpty(matchingResult.published_date),
   author |-> "",
   text |-> textOf(matchingResult, maxCharactersOf(params)),
   favicon |-> matchingResult.favicon,
   score |-> Some(matchingResult.score)]

\* the try block after the await: the entry, or null (None)
contentsAfterFetch(url, params, fetched) ==
  IF ~fetched.ok THEN fetched
  ELSE LET body == Get(fetched.value)
       IN IF IsSome(body.results) /\ Len(Get(body.results)) > 0
          THEN Ok(Some(contentsResultOf(
                         url,
                         matchingResultOf(Get(body.results), pathname(url)),
                         params)))
          ELSE Ok(None)

\* variant: no catch, the per-URL failure rejects the promise
catchRethrows(r) == r

\* catch (error) { console.error(...); return null; }
catchReturnNull(r) == IF r.ok THEN r ELSE Ok(None)

\* how a per-URL lookup went, as seen from outside the tool
LookupOf(fetched) ==
  IF ~fetched.ok THEN "threw"
  ELSE LET body == Get(fetched.value)
       IN IF IsSome(body.results) /\ Len(Get(body.results)) > 0
          THEN "results" ELSE "empty"

\* a per-URL promise: state "inflight" or "settled"; settled holds the
\* promise's settlement (Ok(null or entry), or a rejection)
Inflight == [state |-> "inflight", settled |-> Ok(None), lookup |-> "pending"]
Settled(r, lookup) == [state |-> "settled", settled |-> r, lookup |-> lookup]

\* variant: the key failure is not caught per URL and rejects the promise
contentsTaskStartKeyFailureEscapes(url, key) ==
  IF ~UrlParses(url)
  THEN [task |-> Settled(catchReturnNull(Throw(InvalidUrl)), "threw"),
        requests |-> <<>>]
  ELSE LET started == fetchTavilyStart("/search", contentsRequestOf(url), key)
       IN IF started.threw
          THEN [task |-> Settled(Throw(started.error), "threw"),
                requests |-> <<>>]
          ELSE [task |-> Inflight, requests |-> started.requests]

\* the synchronous part of the per-URL function: new URL, key test, fetch
contentsTaskStart(url, key) ==
  IF ~UrlParses(url)
  THEN [task |-> Settled(catchReturnNull(Throw(InvalidUrl)), "threw"),
        requests |-> <<>>]
  ELSE LET started == fetchTavilyStart("/search", contentsRequestOf(url), key)
       IN IF started.threw
          THEN [task |-> Settled(catchReturnNull(Throw(started.error)), "threw"),
                requests |-> <<>>]
          ELSE [task |-> Inflight, requests |-> started.requests]

\* the part after the await
contentsTaskResponse(url, params, response) ==
  LET fetched == fetchTavilyResponse(response)
  IN Settled(catchReturnNull(contentsAfterFetch(url, params, fetched)),
             LookupOf(fetched))

RECURSIVE startAll(_, _, _)
\* params.urls.map(async (url) => ...): every function runs to its first
\* await, in URL order, before any answer is handled
startAll(urls, key, i) ==
  IF i > Len(urls) THEN [tasks |-> <<>>, requests |-> <<>>]
  ELSE LET head == contentsTaskStart(urls[i], key)
           rest == startAll(urls, key, i + 1)
       IN [tasks |-> <<head.task>> \o rest.tasks,
           requests |-> head.requests \o rest.requests]

SettledIndices(ts) == {i \in 1..Len(ts) : ts[i].state = "settled"}

\* variant: the values are collected in the order of settlement
promiseAllValuesInCompletionOrder(ts, order) ==
  [k \in 1..Len(ts) |-> Get(ts[order[k]].settled.value)]

\* the values Promise.all resolves with
promiseAllValues(ts, order) == [i \in 1..Len(ts) |-> Get(ts[i].settled.value)]

\* Promise.all: pending (None) until all are settled or one has rejected
promiseAll(ts, order) ==
  LET rejected == {k \in 1..Len(order) : ~ts[order[k]].settled.ok}
  IN IF rejected # {}
     THEN Some(Throw(ts[order[CHOOSE k \in rejected :
                                 \A m \in rejected : k <= m]].settled.error))
     ELSE IF SettledIndices(ts) = 1..Len(ts)
          THEN Some(Ok(promiseAllValues(ts, order)))
          ELSE None

RECURSIVE filterNotNull(_)
\* results.filter((r) => r !== null)
filterNotNull(values) ==
  IF values = <<>> THEN <<>>
  ELSE (IF IsSome(Head(values)) THEN <<Get(Head(values))>> ELSE <<>>)
       \o filterNotNull(Tail(values))

contentsCore(all) ==
  IF all.ok THEN Ok([results |-> filterNotNull(Get(all.value))]) ELSE all

\* exaContentsToolForWorkflow: a rejection of Promise.all propagates
workflowContentsOutcome(r) ==
  IF r.ok THEN Return(Get(r.value)) ELSE Raise(r.error)

\* exaContentsTool: safe(...).ifFail(...).unwrap()
interactiveContentsOutcome(r) ==
  IF r.ok THEN Return(Get(r.value))
  ELSE Return(ErrorPayload(r.error, ContentsSolution))

(***************************************************************************)
(* Inputs of the tools.                                                    *)
(***************************************************************************)
TypeInputs ==
  {None, Some(""), Some("auto"), Some("keyword"), Some("neural"), Some("fuzzy")}
NumResultsInputs == {None, Some(1), Some(2)}
CategoryInputs == {None, Some("news"), Some("company")}
DomainListInputs == {None, Some(<<>>), Some(<<"a">>)}
DateInputs == {None, Some(""), Some("2024-01-01")}

OptionalInputNames ==
  {"numResults", "type", "category", "includeDomains", "excludeDomains",
   "startPublishedDate", "endPublishedDate"}

\* search inputs with at most MaxOptionalInputs optional inputs given
SearchInputs ==
  {p \in [query : {"q"},
          numResults : NumResultsInputs,
          type : TypeInputs,
          category : CategoryInputs,
          includeDomains : DomainListInputs,
          excludeDomains : DomainListInputs,
          startPublishedDate : DateInputs,
          endPublishedDate : DateInputs] :
     Cardinality({f \in OptionalInputNames : IsSome(p[f])}) <= MaxOptionalInputs}

MaxCharactersInputs == {None, Some(2)}

ContentsInputs ==
  [urls : SeqsUpTo(InputUrls, MaxUrls) \ {<<>>},
   maxCharacters : MaxCharactersInputs]

(***************************************************************************)
(* State.                                                                  *)
(***************************************************************************)
VARIABLES
  envKey,     \* process.env.TAVILY_API_KEY now
  API_KEY,    \* the module constant of line 168
  pc,         \* "idle", "await" (answers outstanding) or "done"
  call,       \* the tool call in progress
  requests,   \* the HTTP requests the call has issued
  response,   \* search tools: the answer received, None before
  fetched,    \* search tools: how fetchTavily settled, None before
  tasks,      \* contents tools: the per-URL promises
  doneOrder,  \* contents tools: the order in which the promises settled
  outcome     \* what the call returned or raised

vars ==
  <<envKey, API_KEY, pc, call, requests, response, fetched, tasks, doneOrder,
    outcome>>

IdleCall == [op |-> "none", params |-> EmptyObject, envAtCall |-> NoKey]

Init ==
  /\ envKey \in KeyValues
  /\ API_KEY = envKey
  /\ pc = "idle"
  /\ call = IdleCall
  /\ requests = <<>>
  /\ response = None
  /\ fetched = None
  /\ tasks = <<>>
  /\ doneOrder = <<>>
  /\ outcome = NoOutcome

\* the environment variable is set, unset or replaced.  A tool reads the key
\* only in its synchronous part, so a change during its await is the same as
\* a change right after the call; changes are taken between calls.
SetEnvKey ==
  /\ pc = "idle"
  /\ \E k \in KeyValues : k # envKey /\ envKey' = k
  /\ UNCHANGED <<API_KEY, pc, call, requests, response, fetched, tasks,
                 doneOrder, outcome>>

SearchOutcome(op, r) ==
  IF op = "exaSearchToolForWorkflow" THEN workflowSearchOutcome(r)
  ELSE interactiveSearchOutcome(r)

\* a search tool up to its await of fetchTavily
InvokeSearch(op) ==
  /\ pc = "idle"
  /\ \E params \in SearchInputs :
       LET started == fetchTavilyStart("/search", searchRequestOf(params),
                                       readApiKey(envKey, API_KEY))
       IN /\ call' = [op |-> op, params |-> params, envAtCall |-> envKey]
          /\ requests' = started.requests
          /\ IF started.threw
             THEN /\ pc' = "done"
                  /\ fetched' = Some(Throw(started.error))
                  /\ outcome' = SearchOutcome(op, Throw(started.error))
             ELSE /\ pc' = "await"
                  /\ fetched' = None
                  /\ outcome' = NoOutcome
  /\ UNCHANGED <<envKey, API_KEY, response, tasks, doneOrder>>

exaSearchToolForWorkflow == InvokeSearch("exaSearchToolForWorkflow")

exaSearchTool == InvokeSearch("exaSearchTool")

IsSearch(op) == op \in {"exaSearchToolForWorkflow", "exaSearchTool"}
IsContents(op) == op \in {"exaContentsToolForWorkflow", "exaContentsTool"}

\* the answer of the backing API reaches a search tool
SearchResponse ==
  /\ pc = "await"
  /\ IsSearch(call.op)
  /\ \E resp \in Responses :
       /\ response' = Some(resp)
       /\ fetched' = Some(fetchTavilyResponse(resp))
       /\ outcome' = SearchOutcome(call.op, searchCore(resp))
  /\ pc' = "done"
  /\ UNCHANGED <<envKey, API_KEY, call, requests, tasks, doneOrder>>

ContentsOutcome(op, r) ==
  IF op = "exaContentsToolForWorkflow" THEN workflowContentsOutcome(r)
  ELSE interactiveContentsOutcome(r)

\* pc and outcome once the promises are ts, settled in the order given
ContentsProgress(op, ts, order) ==
  LET all == promiseAll(ts, order)
  IN IF IsSome(all)
     THEN /\ pc' = "done"
          /\ outcome' = ContentsOutcome(op, contentsCore(Get(all)))
     ELSE /\ pc' = "await"
          /\ outcome' = NoOutcome

RECURSIVE IndicesInOrder(_, _)
IndicesInOrder(S, n) ==
  IF n = 0 THEN <<>>
  ELSE IndicesInOrder(S, n - 1) \o (IF n \in S THEN <<n>> ELSE <<>>)

\* a contents tool up to the await of Promise.all
InvokeContents(op) ==
  /\ pc = "idle"
  /\ \E params \in ContentsInputs :
       LET started == startAll(params.urls, readApiKey(envKey, API_KEY), 1)
           order == IndicesInOrder(SettledIndices(started.tasks),
                                   Len(started.tasks))
       IN /\ call' = [op |-> op, params |-> params, envAtCall |-> envKey]
          /\ requests' = started.requests
          /\ tasks' = started.tasks
          /\ doneOrder' = order
          /\ ContentsProgress(op, started.tasks, order)
  /\ UNCHANGED <<envKey, API_KEY, response, fetched>>

exaContentsToolForWorkflow == InvokeContents("exaContentsToolForWorkflow")

exaContentsTool == InvokeContents("exaContentsTool")

\* the answer for URL i reaches its per-URL function
ContentsResponse ==
  /\ pc = "await"
  /\ IsContents(call.op)
  /\ \E i \in 1..Len(tasks), resp \in ContentsResponses :
       /\ tasks[i].state = "inflight"
       /\ LET ts == [tasks EXCEPT
                       ![i] = contentsTaskResponse(call.params.urls[i],
                                                   call.params, resp)]
              order == Append(doneOrder, i)
          IN /\ tasks' = ts
             /\ doneOrder' = order
             /\ ContentsProgress(call.op, ts, order)
  /\ UNCHANGED <<envKey, API_KEY, call, requests, response, fetched>>

\* the caller takes the outcome; the next call can start
Finish ==
  /\ pc = "done"
  /\ pc' = "idle"
  /\ call' = IdleCall
  /\ requests' = <<>>
  /\ response' = None
  /\ fetched' = None
  /\ tasks' = <<>>
  /\ doneOrder' = <<>>
  /\ outcome' = NoOutcome
  /\ UNCHANGED <<envKey, API_KEY>>

Next ==
  \/ SetEnvKey
  \/ exaSearchToolForWorkflow
  \/ exaSearchTool
  \/ exaContentsToolForWorkflow
  \/ exaContentsTool
  \/ SearchResponse
  \/ ContentsResponse
  \/ Finish

Spec == Init /\ [][Next]_vars

(***************************************************************************)
(* Vocabulary of the properties.                                           *)
(***************************************************************************)
Done == pc = "done"
Returned == outcome.kind = "return"
Value == Get(outcome.value)
HasField(r, f) == f \in DOMAIN r

ErrorFields == {"isError", "error", "solution"}
SuccessFields ==
  {"results", "guide", "requestId", "autopromptString", "resolvedSearchType"}

IsErrorPayload(v) == DOMAIN v = ErrorFields /\ v.isError = TRUE

\* indices of the URLs whose lookup returned at least one result
ResultIndices == {i \in 1..Len(tasks) : tasks[i].lookup = "results"}

\* the URLs whose lookup returned at least one result, in input order
RECURSIVE UrlsWithResults(_)
UrlsWithResults(n) ==
  IF n = 0 THEN <<>>
  ELSE UrlsWithResults(n - 1)
       \o (IF n \in ResultIndices THEN <<call.params.urls[n]>> ELSE <<>>)

IdsOf(results) == [k \in 1..Len(results) |-> results[k].id]

\* C1: a finished contents call (either variant) has not raised and returns
\* a results list with exactly one entry, in input order, for each URL whose
\* lookup returned at least one result, and none for a URL whose lookup threw
\* or returned zero results.
C1_ContentsPartialFailure ==
  (Done /\ IsContents(call.op)) =>
    /\ Returned
    /\ HasField(Value, "results")
    /\ Len(Value.results) = Cardinality(ResultIndices)
    /\ IdsOf(Value.results) = UrlsWithResults(Len(tasks))

\* URLs [a, b], a's lookup threw, b's succeeded: only b's entry is returned
C1_Witness ==
  /\ Done /\ IsContents(call.op)
  /\ call.params.urls = <<UA, UB>>
  /\ tasks[1].lookup = "threw" /\ tasks[2].lookup = "results"
  /\ Returned /\ IdsOf(Value.results) = <<UB>>

\* the failure of a finished interactive search: the client's, else the
\* translator's
SearchFailure ==
  IF ~Get(fetched).ok THEN Get(fetched)
  ELSE transformTavilyToExaFormat(Get(Get(fetched).value))

SomeLookupThrew == \E i \in 1..Len(tasks) : tasks[i].lookup = "threw"

\* C2 as stated: whenever the backing client or a translator fails in an
\* interactive call, the call completes with the error payload of that
\* operation and no success field.
C2_AsStated ==
  /\ (Done /\ call.op = "exaSearchTool" /\ ~SearchFailure.ok) =>
       /\ Returned
       /\ Value = ErrorPayload(SearchFailure.error, SearchSolution)
  /\ (Done /\ call.op = "exaContentsTool" /\ SomeLookupThrew) =>
       /\ Returned
       /\ IsErrorPayload(Value)
       /\ Value.solution = ContentsSolution

\* C2 (amended): the interactive tools never raise.  Interactive search
\* completes every failure of the client or the translator with exactly
\* {isError: true, error: <message>, solution: <search text>}, which has no
\* success field.  Interactive contents absorbs the client's failures per URL
\* and completes with {results: [...]} and no isError.
C2_InteractiveNeverRaises ==
  /\ (Done /\ call.op \in {"exaSearchTool", "exaContentsTool"}) => Returned
  /\ (Done /\ call.op = "exaSearchTool" /\ ~SearchFailure.ok) =>
       /\ Value = ErrorPayload(SearchFailure.error, SearchSolution)
       /\ DOMAIN Value \cap SuccessFields = {}
  /\ (Done /\ call.op = "exaSearchTool" /\ SearchFailure.ok) =>
       ~HasField(Value, "isError")
  /\ (Done /\ call.op = "exaContentsTool") =>
       DOMAIN Value = {"results"}

\* interactive search after a 500 answer whose body could not be read
C2_Witness ==
  /\ Done /\ call.op = "exaSearchTool"
  /\ IsSome(response) /\ Get(response).status = 500
  /\ Returned /\ IsErrorPayload(Value)
  /\ Value.solution = SearchSolution

\* C3: when the client holds no API key, a call fails with the configuration
\* error and has issued no HTTP request, in every state of the call.  (The
\* client's key is the module constant API_KEY; how it follows the
\* environment is the subject of C7.)
C3_NoKeyNoRequest ==
  (pc # "idle" /\ API_KEY = NoKey) =>
    /\ Done
    /\ Len(requests) = 0
    /\ IsSearch(call.op) => fetched = Some(Throw(ConfigurationError))
    /\ call.op = "exaSearchToolForWorkflow" =>
         outcome = Raise(ConfigurationError)
    /\ IsContents(call.op) =>
         \A i \in 1..Len(tasks) : tasks[i].lookup = "threw"

C3_Witness ==
  /\ Done /\ API_KEY = NoKey
  /\ call.op = "exaSearchToolForWorkflow"
  /\ outcome = Raise(ConfigurationError)
  /\ requests = <<>>

\* C4: the client maps 401 to the authentication error, 429 to the
\* rate-limit error (a different message), any other non-success status to
\* the backend error with status code, status text and, when the body can be
\* read and is not empty, the body text; an unreadable body still gives that
\* backend error, without body text; a success status gives the parsed body.
\* The workflow search raises exactly that error.
C4_StatusMapping ==
  (Done /\ IsSearch(call.op) /\ IsSome(response) /\ Get(response).net) =>
    LET resp == Get(response)
        f == Get(fetched)
    IN /\ resp.status = 401 => f = Throw(AuthenticationError)
       /\ resp.status = 429 => f = Throw(RateLimitError)
       /\ AuthenticationError # RateLimitError
       /\ (resp.status \notin {401, 429} /\ ~ok(resp)) =>
            /\ ~f.ok
            /\ Len(f.error) >= 4
            /\ SubSeq(f.error, 1, 4) =
                 <<"Tavily API error: ", StatusString(resp.status), " ",
                   StatusText(resp.status)>>
            /\ IF IsSome(resp.text) /\ Get(resp.text) # ""
               THEN f.error[5] = " - " /\ f.error[6] = Get(resp.text)
                    /\ Len(f.error) = 6
               ELSE Len(f.error) = 4
       /\ (ok(resp) /\ IsSome(resp.json)) => f = Ok(Get(resp.json))
       /\ (call.op = "exaSearchToolForWorkflow" /\ ~f.ok) =>
            outcome = Raise(f.error)

\* a 500 answer whose body cannot be read
C4_Witness ==
  /\ Done /\ call.op = "exaSearchToolForWorkflow"
  /\ IsSome(response)
  /\ Get(response).status = 500 /\ Get(response).text = None
  /\ outcome.kind = "raise" /\ Len(outcome.error) = 4

\* the results list of a finished call that returned one
HasResults == Done /\ Returned /\ HasField(Value, "results")

\* C5 as stated: every result of every entry point has id equal to its url.
C5_AsStated ==
  HasResults => \A k \in 1..Len(Value.results) :
                   Value.results[k].id = Value.results[k].url

\* C5 (amended): every result of the two search entry points has id equal to
\* its own url.  A result of contents extraction has id equal to the URL that
\* was asked for, and url equal to the url of a result of the backing answer,
\* which can differ from id.
C5_IdOfResult ==
  /\ (HasResults /\ IsSearch(call.op)) =>
       \A k \in 1..Len(Value.results) :
          Value.results[k].id = Value.results[k].url
  /\ (HasResults /\ IsContents(call.op)) =>
       /\ IdsOf(Value.results) = UrlsWithResults(Len(tasks))
       /\ \A k \in 1..Len(Value.results) :
            Value.results[k].url \in {r.url : r \in BackingResults}

\* a contents result whose url is not the URL asked for
C5_Witness ==
  /\ HasResults /\ IsContents(call.op)
  /\ \E k \in 1..Len(Value.results) :
       Value.results[k].id = UA /\ Value.results[k].url = UAz

SearchSucceeded ==
  /\ HasResults /\ IsSearch(call.op)
  /\ IsSome(response) /\ IsSome(Get(response).json)

BackingResultsReceived == Get(Get(Get(response).json).results)

\* C6 as stated: the number of results returned never exceeds the
\* max_results sent in the request, for every backing response.
C6_AsStated ==
  SearchSucceeded => Len(Value.results) <= requests[1].body.max_results

\* C6 (amended): the number of results returned equals the number of results
\* of the backing response (the translator neither drops nor adds one), so it
\* is at most the max_results sent whenever the backing response holds at
\* most that many; max_results is the caller's numResults, or 5 when absent.
C6_ResultCount ==
  SearchSucceeded =>
    /\ Len(Value.results) = Len(BackingResultsReceived)
    /\ requests[1].body.max_results =
         (IF IsSome(call.params.numResults) THEN Get(call.params.numResults)
          ELSE 5)
    /\ Len(BackingResultsReceived) <= requests[1].body.max_results =>
         Len(Value.results) <= requests[1].body.max_results

\* two results returned for a request of two
C6_Witness ==
  /\ SearchSucceeded
  /\ call.params.numResults = Some(2)
  /\ requests[1].body.max_results = 2
  /\ Len(Value.results) = 2

UsesLoadedKey ==
  (pc # "idle") =>
    /\ \A k \in 1..Len(requests) : requests[k].headers.apiKey = API_KEY
    /\ API_KEY = NoKey => requests = <<>>
    /\ (API_KEY # NoKey /\ IsSearch(call.op)) => Len(requests) = 1

SearchRequested == pc # "idle" /\ IsSearch(call.op) /\ requests # <<>>

\* C8: in the request of both search tools search_depth is "advanced" exactly
\* when the caller's type is "neural", and "basic" for "auto", "keyword", an
\* absent type and a value outside the enum.
C8_SearchDepth ==
  SearchRequested =>
    LET depth == requests[1].body.search_depth
    IN /\ depth = "advanced" <=> call.params.type = Some("neural")
       /\ call.params.type # Some("neural") => depth = "basic"

C8_Witness ==
  /\ SearchRequested
  /\ call.op = "exaSearchTool"
  /\ call.params.type = Some("neural")
  /\ requests[1].body.search_depth = "advanced"

\* the payload field of each optional input that is copied through
PayloadFieldOf ==
  [includeDomains |-> "include_domains",
   excludeDomains |-> "exclude_domains",
   startPublishedDate |-> "start_date",
   endPublishedDate |-> "end_date"]

DomainListInputNames == {"includeDomains", "excludeDomains"}
DateInputNames == {"startPublishedDate", "endPublishedDate"}

AlwaysSentFields ==
  {"query", "search_depth", "max_results", "include_answer", "include_images",
   "include_image_descriptions", "include_raw_content", "include_favicon"}

\* C9: the search payload has topic only when category is "news",
\* include_domains / exclude_domains only when the list is given and not
\* empty, start_date / end_date only when the date is given; a field that is
\* present holds the caller's value (never a null or a default), and the
\* payload has no other field than these five and the eight that are always
\* sent.
C9_NoFieldForAbsentInput ==
  SearchRequested =>
    LET body == requests[1].body
        params == call.params
    IN /\ HasField(body, "topic") =>
            (params.category = Some("news") /\ body.topic = "news")
       /\ \A f \in DOMAIN PayloadFieldOf :
            HasField(body, PayloadFieldOf[f]) =>
              /\ IsSome(params[f])
              /\ f \in DomainListInputNames => Len(Get(params[f])) > 0
              /\ f \in DateInputNames => Get(params[f]) # ""
              /\ body[PayloadFieldOf[f]] = Get(params[f])
       /\ DOMAIN body \subseteq
            AlwaysSentFields \cup {"topic"}
            \cup {PayloadFieldOf[f] : f \in DOMAIN PayloadFieldOf}

\* a payload with include_domains and without topic, dates or exclude_domains
C9_Witness ==
  /\ SearchRequested
  /\ call.params.category = None
  /\ call.params.includeDomains = Some(<<"a">>)
  /\ DOMAIN requests[1].body = AlwaysSentFields \cup {"include_domains"}

\* the position in the returned list of the entry of URL i
PositionOf(i) == Cardinality({k \in ResultIndices : k <= i})

ParsableIndices ==
  {i \in 1..Len(call.params.urls) : UrlParses(call.params.urls[i])}

\* C10: a contents call has issued all its per-URL requests before it handles
\* any answer, and whatever the order in which the answers arrive, the
\* returned list holds the entries in the order of the URLs: the entry of URL
\* i is at the position given by the number of entries of URLs up to i.
C10_InputOrder ==
  /\ (pc # "idle" /\ IsContents(call.op) /\ API_KEY # NoKey) =>
       Len(requests) = Cardinality(ParsableIndices)
  /\ (Done /\ IsContents(call.op)) =>
       /\ Returned
       /\ \A i \in ResultIndices :
            /\ PositionOf(i) \in 1..Len(Value.results)
            /\ Value.results[PositionOf(i)] = Get(Get(tasks[i].settled.value))

\* the second URL's answer arrived first; its entry is still second
C10_Witness ==
  /\ Done /\ IsContents(call.op)
  /\ call.params.urls = <<UA, UB>>
  /\ doneOrder = <<2, 1>>
  /\ Returned /\ Len(Value.results) = 2
  /\ Value.results[1].id = UA /\ Value.results[2].id = UB

\* the URLs that parse, in input order
RECURSIVE ParsableUrls(_)
ParsableUrls(n) ==
  IF n = 0 THEN <<>>
  ELSE ParsableUrls(n - 1)
       \o (IF n \in ParsableIndices THEN <<call.params.urls[n]>> ELSE <<>>)

QueriesOf(rs) == [k \in 1..Len(rs) |-> rs[k].body.query]

AllLookupsThrew == \A i \in 1..Len(tasks) : tasks[i].lookup = "threw"

\* C11: in both contents tools every failure of the backing client is
\* absorbed per URL, whatever its kind.  The call never raises and never
\* awaits once every lookup has settled; it completes with exactly
\* {results: [...]} (no isError, in the interactive tool too) of length at
\* most the number of URLs.  An unparsable URL issues no request: the requests
\* are those of the parsable URLs, and none at all without an API key.  When
\* every lookup failed, as with a missing key, the value is {results: []}.
C11_FailuresAbsorbedPerUrl ==
  (pc # "idle" /\ IsContents(call.op)) =>
    /\ outcome.kind # "raise"
    /\ pc = "await" => \E i \in 1..Len(tasks) : tasks[i].state = "inflight"
    /\ QueriesOf(requests) =
         (IF API_KEY = NoKey THEN <<>> ELSE ParsableUrls(Len(tasks)))
    /\ \A i \in 1..Len(tasks) :
         (API_KEY = NoKey \/ i \notin ParsableIndices) =>
           tasks[i].lookup = "threw"
    /\ Done =>
         /\ Returned
         /\ DOMAIN Value = {"results"}
         /\ Len(Value.results) <= Len(call.params.urls)
         /\ AllLookupsThrew => Value = [results |-> <<>>]

\* no key: the interactive tool answers {results: []} for two good URLs
C11_Witness ==
  /\ Done /\ call.op = "exaContentsTool"
  /\ API_KEY = NoKey
  /\ call.params.urls = <<UA, UB>>
  /\ requests = <<>>
  /\ outcome = Return([results |-> <<>>])

=============================================================================
